---- MODULE Spec2Model ----
(***************************************************************************)
(* OAuthSupersetAuth (src/preset_cli/auth/oauth_superset.py): the token    *)
(* state of one handler, the calls of its methods as call stacks, and the  *)
(* two network exchanges (token POST, CSRF GET) with the answers chosen by *)
(* the environment; and create_superset_auth (src/preset_cli/auth/         *)
(* factory.py), which validates a configuration and builds the handler.    *)
(*                                                                         *)
(* `sup sync run` (src/sup/commands/sync.py) with the client factory it    *)
(* uses (SupSupersetClient.from_context, src/sup/clients/superset.py): one *)
(* run of the command, its prompt, its pull and its pushes, with what each *)
(* step does outside the process recorded in `effects`.                    *)
(*                                                                         *)
(* Time is counted in whole minutes: the clock `now`, the recorded expiry  *)
(* and expires_in are all in that unit, so the 5-minute buffer is 5.       *)
(***************************************************************************)
EXTENDS Integers, Sequences, FiniteSets, TLC

VARIABLES
    access_token,   \* self._access_token: a token or None
    token_expires,  \* self._token_expires: an instant or NoExpiry
    csrf_token,     \* self._csrf_token: a CSRF token or None
    constructed,    \* TRUE once a handler object exists for callers to use
    scope,          \* self.scope
    token_type,     \* self.token_type
    config,         \* the configuration the last create_superset_auth call was given
    missing,        \* the field names its ValueError listed after "Missing: "
    args,           \* the arguments and surroundings of the `sup sync run` followed
    sync,           \* its position, the targets selected and left, its exit code
    effects,        \* what it has done outside the process so far, in order
    ctx,            \* the stored context: current workspace and its cached hostname
    now,            \* datetime.now(tz=UTC)
    stack,          \* per caller: the frames of the running call, outermost first
    ret,            \* per caller: the value the last returned call handed back
    ev,             \* per caller: what the running (or last) outermost call did, in order
    pre,            \* per caller: the token state when the outermost call started
    done            \* per caller: the outermost call, and how it ended

\* the credentials of the handler the model follows, and the factory's variables
creds == <<scope, token_type>>
factory == <<config, missing>>
\* the variables of the sync command
cli == <<args, sync, effects, ctx>>

vars == <<access_token, token_expires, csrf_token, constructed, creds, factory, cli,
          now, stack, ret, ev, pre, done>>

----------------------------------------------------------------------------
(* Bounds of the model *)

\* the last minute the clock reaches
MaxTime == 1
\* the longest lifetime (expires_in, in minutes) the token endpoint grants
MaxExpiresIn == 6

(* Program constants and value sets *)

Buffer == 5
NoExpiry == -1
NoExpiresIn == -1
None == "None"

\* the defaults of OAuthSupersetAuth.__init__
DefaultScope == "openid profile email roles"
DefaultTokenType == "Bearer"

\* what a field of a configuration may hold: nothing, the empty string, a value
FieldValues == {None, "", "v"}
\* oauth_scope and oauth_token_type: left out of the configuration, or set
Omitted == "omitted"
CustomScope == "custom scope"
CustomTokenType == "CustomToken"
\* auth_method: the three the factory knows and one it does not
AuthMethods == {"username_password", "jwt", "oauth", "ldap"}

\* required_fields of the oauth branch, in the order the dict lists them
OAuthFields == <<"oauth_token_url", "oauth_client_id", "oauth_client_secret",
                 "oauth_username", "oauth_password">>
CredentialFields == {"username", "password", "jwt_token"}
                        \cup {OAuthFields[i] : i \in DOMAIN OAuthFields}

\* the fields each branch of create_superset_auth reads before it builds a handler
FieldsRead(method) ==
    IF method = "username_password" THEN {"username", "password"}
    ELSE IF method = "jwt" THEN {"jwt_token"}
    ELSE IF method = "oauth" THEN {OAuthFields[i] : i \in DOMAIN OAuthFields}
    ELSE {}

\* the configurations create_superset_auth is given: the fields the chosen branch
\* reads take every value, the other credential fields are all unset or all set
Configs ==
    {cfg \in [auth_method : AuthMethods,
              username : FieldValues, password : FieldValues, jwt_token : FieldValues,
              oauth_token_url : FieldValues, oauth_client_id : FieldValues,
              oauth_client_secret : FieldValues, oauth_username : FieldValues,
              oauth_password : FieldValues,
              oauth_scope : {Omitted, CustomScope},
              oauth_token_type : {Omitted, CustomTokenType}] :
        /\ \/ \A f \in CredentialFields \ FieldsRead(cfg.auth_method) : cfg[f] = None
           \/ \A f \in CredentialFields \ FieldsRead(cfg.auth_method) : cfg[f] = "v"
        /\ cfg.auth_method # "oauth" =>
               cfg.oauth_scope = Omitted /\ cfg.oauth_token_type = Omitted}

NoConfig ==
    [auth_method |-> None, username |-> None, password |-> None, jwt_token |-> None,
     oauth_token_url |-> None, oauth_client_id |-> None, oauth_client_secret |-> None,
     oauth_username |-> None, oauth_password |-> None,
     oauth_scope |-> Omitted, oauth_token_type |-> Omitted]

Tokens == {"T1", "T2"}
CsrfTokens == {"X1", "X2"}
\* the callers that may hold the handler; the specifications below run caller 1
Threads == {1, 2}

\* lifetimes the endpoint grants: one that is stale at once, one that is not
ExpiresInValues == {Buffer, MaxExpiresIn}

\* what the token endpoint may answer to one POST
TokenResponses ==
    {[kind |-> "http_error", access_token |-> None, expires_in |-> NoExpiresIn],
     [kind |-> "no_access_token", access_token |-> None, expires_in |-> NoExpiresIn]}
    \cup {[kind |-> "ok", access_token |-> k, expires_in |-> e] :
              k \in Tokens, e \in ExpiresInValues \cup {NoExpiresIn}}

\* what the CSRF endpoint may answer to one GET
CsrfResponses ==
    {[kind |-> "http_error", result |-> None],
     [kind |-> "no_result", result |-> None]}
    \cup {[kind |-> "ok", result |-> x] : x \in CsrfTokens}

----------------------------------------------------------------------------
(* Pure helpers *)

\* variants of _is_token_expired a slip would produce: the comparison turned round,
\* the buffer forgotten, the boundary instant excluded
is_token_expired_reversed(expires, at) ==
    IF expires = NoExpiry THEN TRUE ELSE at <= expires - Buffer

is_token_expired_no_buffer(expires, at) ==
    IF expires = NoExpiry THEN TRUE ELSE at >= expires

is_token_expired_strict(expires, at) ==
    IF expires = NoExpiry THEN TRUE ELSE at > expires - Buffer

\* _is_token_expired, with the clock reading passed in
is_token_expired(expires, at) ==
    IF expires = NoExpiry THEN TRUE ELSE at >= expires - Buffer

\* Python's truth value of a configuration field: None and "" are false
Truthy(v) == v \notin {None, ""}

\* key.replace("oauth_", "")
StripOauth(key) ==
    CASE key = "oauth_token_url" -> "token_url"
      [] key = "oauth_client_id" -> "client_id"
      [] key = "oauth_client_secret" -> "client_secret"
      [] key = "oauth_username" -> "username"
      [] key = "oauth_password" -> "password"
      [] OTHER -> key

\* the list with only its first entry, as a check that stops at the first field would
\* build it
MissingFirstOnly(cfg) ==
    LET absent == SelectSeq(OAuthFields, LAMBDA key : ~Truthy(cfg[key]))
    IN  IF absent = <<>> THEN <<>> ELSE <<StripOauth(Head(absent))>>

\* missing = [key.replace("oauth_", "") for key, value in required_fields.items()
\*            if not value]
Missing(cfg) ==
    LET absent == SelectSeq(OAuthFields, LAMBDA key : ~Truthy(cfg[key]))
    IN  [i \in DOMAIN absent |-> StripOauth(absent[i])]

\* config.oauth_scope and config.oauth_token_type as SupersetInstanceConfig holds them:
\* the value the configuration gives, or the default when it gives none
ConfigScope(cfg) ==
    IF cfg.oauth_scope = Omitted THEN DefaultScope ELSE cfg.oauth_scope
ConfigTokenType(cfg) ==
    IF cfg.oauth_token_type = Omitted THEN DefaultTokenType ELSE cfg.oauth_token_type

Frame(fn) == [fn |-> fn, pc |-> "start", loc |-> None, num |-> NoExpiresIn]
Top(t) == stack[t][Len(stack[t])]
Idle(t) == stack[t] = <<>>
At(t, fn, pc) == ~Idle(t) /\ Top(t).fn = fn /\ Top(t).pc = pc

NotTracked == "n/a"

\* what pre[t] records when caller t starts the outermost call fn: the token state,
\* for get_headers whether the call before it was a construction that returned, and,
\* for get_access_token, through a run
\* of get_access_token calls that follows an auth() that returned, the CSRF token
\* that auth() left stored and whether the call before was a get_access_token of that
\* run that fetched a token
Tracked(t, fn) ==
    /\ fn = "get_access_token"
    /\ \/ done[t].op \in {"__init__", "auth"} /\ done[t].status = "returned"
       \/ done[t].op = "get_access_token" /\ pre[t].auth_csrf # NotTracked

Snapshot(t, fn, a, x, c) ==
    [access_token |-> a, token_expires |-> x, csrf_token |-> c,
     after_refresh |-> /\ Tracked(t, fn)
                       /\ done[t].op = "get_access_token"
                       /\ \E i \in 1 .. Len(ev[t]) : ev[t][i].e = "POST_RESPONSE",
     after_init |-> /\ fn = "get_headers"
                    /\ done[t].op = "__init__"
                    /\ done[t].status = "returned",
     auth_csrf |->
         IF ~Tracked(t, fn) THEN NotTracked
         ELSE IF done[t].op = "get_access_token" THEN pre[t].auth_csrf
         ELSE c]

\* one entry of ev:
\*   CHECK          a, x: the access token and expiry get_access_token saw; n: the clock
\*                  it read; b: what _is_token_expired() answered, if it was called
\*   POST           a, b, x: access token, CSRF token and expiry when the request left;
\*                  s: the scope in its payload
\*   POST_RESPONSE  b: the kind of answer; a, x: its access_token and expires_in;
\*                  n: its place among the answers all callers have handled so far
\*   GET            a: the token in the Authorization header; b: the access token stored
\*                  when the request left; s: the token type in the header
\*   GET_RESPONSE   b: the kind of answer; a: its result
Event(e, a, b, n, x, s) == [e |-> e, a |-> a, b |-> b, n |-> n, x |-> x, s |-> s]
\* the place the next token answer takes among those in ev
WriteStamp ==
    1 + Cardinality(UNION {{<<u, i>> : i \in {j \in DOMAIN ev[u] :
                                                 ev[u][j].e = "POST_RESPONSE"}} :
                           u \in Threads})

Log(t, e, a, b, n, x, s) ==
    ev' = [ev EXCEPT ![t] = Append(@, Event(e, a, b, n, x, s))]

\* the top frame moves to pc
Goto(t, pc) == stack' = [stack EXCEPT ![t][Len(stack[t])].pc = pc]

\* the top frame moves to pc and calls fn
CallFrom(t, pc, fn) ==
    stack' = [stack EXCEPT ![t] =
                 Append([@ EXCEPT ![Len(@)].pc = pc], Frame(fn))]

\* the top frame returns v to its caller, or ends the outermost call
Return(t, v) ==
    /\ stack' = [stack EXCEPT ![t] = SubSeq(@, 1, Len(@) - 1)]
    /\ ret' = [ret EXCEPT ![t] = v]
    /\ done' = IF Len(stack[t]) = 1
               THEN [done EXCEPT ![t].status = "returned", ![t].val = v]
               ELSE done

\* an exception nobody catches unwinds every frame of the caller
Raise(t, exc) ==
    /\ stack' = [stack EXCEPT ![t] = <<>>]
    /\ done' = [done EXCEPT ![t].status = "raised", ![t].val = exc]
    /\ UNCHANGED ret

\* caller t starts the outermost call fn
Enter(t, fn) ==
    /\ Idle(t)
    /\ stack' = [stack EXCEPT ![t] = <<Frame(fn)>>]
    /\ ev' = [ev EXCEPT ![t] = <<>>]
    /\ done' = [done EXCEPT ![t] =
                   [op |-> fn, status |-> "running", val |-> None, authz |-> None,
                    authz_type |-> None]]
    /\ ret' = [ret EXCEPT ![t] = None]

----------------------------------------------------------------------------
(* Entry points *)

\* OAuthSupersetAuth(...) without scope and token_type: they take their defaults, the
\* three fields start as None, then auth() runs
call_init(t) ==
    /\ \A u \in Threads : Idle(u)
    /\ Enter(t, "__init__")
    /\ scope' = DefaultScope
    /\ token_type' = DefaultTokenType
    /\ access_token' = None
    /\ token_expires' = NoExpiry
    /\ csrf_token' = None
    /\ constructed' = FALSE
    /\ pre' = [pre EXCEPT ![t] = Snapshot(t, "__init__", None, NoExpiry, None)]
    /\ UNCHANGED <<factory, cli, now>>

\* a method of an existing handler is called
call_method(t, fn) ==
    /\ constructed
    /\ Enter(t, fn)
    /\ pre' = [pre EXCEPT ![t] =
                  Snapshot(t, fn, access_token, token_expires, csrf_token)]
    /\ UNCHANGED <<access_token, token_expires, csrf_token, constructed, creds, factory, cli, now>>

\* create_superset_auth(config) is called with the configuration in `config`
call_create_superset_auth(t) ==
    /\ \A u \in Threads : Idle(u)
    /\ Enter(t, "create_superset_auth")
    /\ missing' = <<>>
    /\ pre' = [pre EXCEPT ![t] = Snapshot(t, "create_superset_auth", access_token,
                                          token_expires, csrf_token)]
    /\ UNCHANGED <<access_token, token_expires, csrf_token, constructed, creds,
                   config, cli, now>>

----------------------------------------------------------------------------
(* create_superset_auth *)

\* the frame of create_superset_auth calls the constructor of class cls
Construct(t, cls) ==
    /\ stack' = [stack EXCEPT ![t] =
                    Append([@ EXCEPT ![Len(@)] =
                                [@ EXCEPT !.pc = "after_construct", !.loc = cls]],
                           Frame(IF cls = "OAuthSupersetAuth" THEN "__init__" ELSE cls))]
    /\ Log(t, "CONSTRUCT", cls, None, 0, 0, None)
    /\ UNCHANGED <<ret, done>>

\* the username_password branch with `and` where the code has `or`
create_superset_auth_username_password_either(t) ==
    /\ At(t, "create_superset_auth", "start")
    /\ config.auth_method = "username_password"
    /\ IF ~Truthy(config.username) /\ ~Truthy(config.password)
       THEN /\ Raise(t, "ValueError: username and password")
            /\ UNCHANGED ev
       ELSE Construct(t, "UsernamePasswordAuth")
    /\ UNCHANGED <<access_token, token_expires, csrf_token, constructed, creds, factory, cli,
                   now, pre>>

\* if config.auth_method == "username_password": ...
create_superset_auth_username_password(t) ==
    /\ At(t, "create_superset_auth", "start")
    /\ config.auth_method = "username_password"
    /\ IF ~Truthy(config.username) \/ ~Truthy(config.password)
       THEN /\ Raise(t, "ValueError: username and password")
            /\ UNCHANGED ev
       ELSE Construct(t, "UsernamePasswordAuth")
    /\ UNCHANGED <<access_token, token_expires, csrf_token, constructed, creds, factory, cli,
                   now, pre>>

\* the jwt branch with the handler object built before the field is checked
create_superset_auth_jwt_construct_first(t) ==
    /\ At(t, "create_superset_auth", "start")
    /\ config.auth_method = "jwt"
    /\ IF ~Truthy(config.jwt_token)
       THEN /\ Raise(t, "ValueError: jwt_token")
            /\ Log(t, "CONSTRUCT", "SupersetJWTAuth", None, 0, 0, None)
       ELSE Construct(t, "SupersetJWTAuth")
    /\ UNCHANGED <<access_token, token_expires, csrf_token, constructed, creds, factory, cli,
                   now, pre>>

\* elif config.auth_method == "jwt": ...
create_superset_auth_jwt(t) ==
    /\ At(t, "create_superset_auth", "start")
    /\ config.auth_method = "jwt"
    /\ IF ~Truthy(config.jwt_token)
       THEN /\ Raise(t, "ValueError: jwt_token")
            /\ UNCHANGED ev
       ELSE Construct(t, "SupersetJWTAuth")
    /\ UNCHANGED <<access_token, token_expires, csrf_token, constructed, creds, factory, cli,
                   now, pre>>

\* the oauth branch with scope and token_type left to the constructor's defaults
create_superset_auth_oauth_defaults(t) ==
    /\ At(t, "create_superset_auth", "start")
    /\ config.auth_method = "oauth"
    /\ missing' = Missing(config)
    /\ IF missing' # <<>>
       THEN /\ Raise(t, "ValueError: Missing")
            /\ UNCHANGED <<access_token, token_expires, csrf_token, constructed,
                           creds, ev>>
       ELSE /\ Construct(t, "OAuthSupersetAuth")
            /\ scope' = DefaultScope
            /\ token_type' = DefaultTokenType
            /\ access_token' = None
            /\ token_expires' = NoExpiry
            /\ csrf_token' = None
            /\ constructed' = FALSE
    /\ UNCHANGED <<config, cli, now, pre>>

\* elif config.auth_method == "oauth": the five fields are checked, then
\* OAuthSupersetAuth(..., scope=config.oauth_scope, token_type=config.oauth_token_type)
\* starts: its three fields are None and auth() is about to run
create_superset_auth_oauth(t) ==
    /\ At(t, "create_superset_auth", "start")
    /\ config.auth_method = "oauth"
    /\ missing' = Missing(config)
    /\ IF missing' # <<>>
       THEN /\ Raise(t, "ValueError: Missing")
            /\ UNCHANGED <<access_token, token_expires, csrf_token, constructed,
                           creds, ev>>
       ELSE /\ Construct(t, "OAuthSupersetAuth")
            /\ scope' = ConfigScope(config)
            /\ token_type' = ConfigTokenType(config)
            /\ access_token' = None
            /\ token_expires' = NoExpiry
            /\ csrf_token' = None
            /\ constructed' = FALSE
    /\ UNCHANGED <<config, cli, now, pre>>

\* else: raise ValueError("Unknown authentication method: ...")
create_superset_auth_unknown(t) ==
    /\ At(t, "create_superset_auth", "start")
    /\ config.auth_method \notin {"username_password", "jwt", "oauth"}
    /\ Raise(t, "ValueError: Unknown authentication method")
    /\ UNCHANGED <<access_token, token_expires, csrf_token, constructed, creds, factory, cli,
                   now, ev, pre>>

\* UsernamePasswordAuth(...) or SupersetJWTAuth(...) runs: the object is built, or the
\* constructor fails
other_auth_init(t) ==
    /\ ~Idle(t)
    /\ Top(t).fn \in {"UsernamePasswordAuth", "SupersetJWTAuth"}
    /\ \/ Return(t, None)
       \/ Raise(t, "AuthError")
    /\ UNCHANGED <<access_token, token_expires, csrf_token, constructed, creds, factory, cli,
                   now, ev, pre>>

\* return <the handler the constructor built>
create_superset_auth_return(t) ==
    /\ At(t, "create_superset_auth", "after_construct")
    /\ Return(t, Top(t).loc)
    /\ UNCHANGED <<access_token, token_expires, csrf_token, constructed, creds, factory, cli,
                   now, ev, pre>>

----------------------------------------------------------------------------
(* __init__ *)

init_call_auth(t) ==
    /\ At(t, "__init__", "start")
    /\ CallFrom(t, "after_auth", "auth")
    /\ UNCHANGED <<access_token, token_expires, csrf_token, constructed, creds, factory, cli, now,
                   ret, ev, pre, done>>

init_return(t) ==
    /\ At(t, "__init__", "after_auth")
    /\ Return(t, None)
    /\ constructed' = TRUE
    /\ UNCHANGED <<access_token, token_expires, csrf_token, creds, factory, cli, now, ev, pre>>

(* auth *)

\* auth() taking the access token through the cache
auth_fetch_access_token_cached(t) ==
    /\ At(t, "auth", "start")
    /\ CallFrom(t, "after_access_token", "get_access_token")
    /\ UNCHANGED <<access_token, token_expires, csrf_token, constructed, creds, factory, cli, now,
                   ret, ev, pre, done>>

auth_fetch_access_token(t) ==
    /\ At(t, "auth", "start")
    /\ CallFrom(t, "after_access_token", "_fetch_access_token")
    /\ UNCHANGED <<access_token, token_expires, csrf_token, constructed, creds, factory, cli, now,
                   ret, ev, pre, done>>

\* auth() as it would be without its second statement
auth_fetch_csrf_token_skipped(t) ==
    /\ At(t, "auth", "after_access_token")
    /\ Goto(t, "after_csrf_token")
    /\ UNCHANGED <<access_token, token_expires, csrf_token, constructed, creds, factory, cli, now,
                   ret, ev, pre, done>>

auth_fetch_csrf_token(t) ==
    /\ At(t, "auth", "after_access_token")
    /\ CallFrom(t, "after_csrf_token", "_fetch_csrf_token")
    /\ UNCHANGED <<access_token, token_expires, csrf_token, constructed, creds, factory, cli, now,
                   ret, ev, pre, done>>

auth_return(t) ==
    /\ At(t, "auth", "after_csrf_token")
    /\ Return(t, None)
    /\ UNCHANGED <<access_token, token_expires, csrf_token, constructed, creds, factory, cli, now, ev, pre>>

(* _fetch_access_token *)

\* self.session.post(self.token_url, data=payload)
fetch_access_token_post(t) ==
    /\ At(t, "_fetch_access_token", "start")
    /\ Goto(t, "await_post")
    /\ Log(t, "POST", access_token, csrf_token, 0, token_expires, scope)
    /\ UNCHANGED <<access_token, token_expires, csrf_token, constructed, creds, factory, cli, now,
                   ret, pre, done>>

\* the answer handled with the cached CSRF token dropped whenever a new access token
\* is stored
fetch_access_token_response_drops_csrf(t, resp) ==
    /\ At(t, "_fetch_access_token", "await_post")
    /\ Log(t, "POST_RESPONSE", resp.access_token, resp.kind, WriteStamp, resp.expires_in, None)
    /\ IF resp.kind = "http_error"
       THEN /\ Raise(t, "HTTPError")
            /\ UNCHANGED <<access_token, csrf_token>>
       ELSE IF resp.kind = "no_access_token"
       THEN /\ Raise(t, "KeyError")
            /\ UNCHANGED <<access_token, csrf_token>>
       ELSE /\ access_token' = resp.access_token
            /\ csrf_token' = None
            /\ stack' = [stack EXCEPT ![t][Len(stack[t])] =
                            [@ EXCEPT !.pc = "expires", !.num = resp.expires_in]]
            /\ UNCHANGED <<ret, done>>
    /\ UNCHANGED <<token_expires, constructed, creds, factory, cli, now, pre>>

\* the answer handled with token_data.get("access_token") stored before the check
\* for a missing field
fetch_access_token_response_store_first(t, resp) ==
    /\ At(t, "_fetch_access_token", "await_post")
    /\ Log(t, "POST_RESPONSE", resp.access_token, resp.kind, WriteStamp, resp.expires_in, None)
    /\ IF resp.kind = "http_error"
       THEN /\ Raise(t, "HTTPError")
            /\ UNCHANGED access_token
       ELSE IF resp.kind = "no_access_token"
       THEN /\ Raise(t, "KeyError")
            /\ access_token' = resp.access_token
       ELSE /\ access_token' = resp.access_token
            /\ stack' = [stack EXCEPT ![t][Len(stack[t])] =
                            [@ EXCEPT !.pc = "expires", !.num = resp.expires_in]]
            /\ UNCHANGED <<ret, done>>
    /\ UNCHANGED <<token_expires, csrf_token, constructed, creds, factory, cli, now, pre>>

\* the answer handled with the POST sent again after an HTTP error
fetch_access_token_response_retry(t, resp) ==
    /\ At(t, "_fetch_access_token", "await_post")
    /\ Log(t, "POST_RESPONSE", resp.access_token, resp.kind, WriteStamp, resp.expires_in, None)
    /\ IF resp.kind = "http_error"
       THEN /\ Goto(t, "start")
            /\ UNCHANGED <<access_token, ret, done>>
       ELSE IF resp.kind = "no_access_token"
       THEN /\ Raise(t, "KeyError")
            /\ UNCHANGED access_token
       ELSE /\ access_token' = resp.access_token
            /\ stack' = [stack EXCEPT ![t][Len(stack[t])] =
                            [@ EXCEPT !.pc = "expires", !.num = resp.expires_in]]
            /\ UNCHANGED <<ret, done>>
    /\ UNCHANGED <<token_expires, csrf_token, constructed, creds, factory, cli, now, pre>>

\* the answer: raise_for_status(), then token_data["access_token"] is stored
fetch_access_token_response(t, resp) ==
    /\ At(t, "_fetch_access_token", "await_post")
    /\ Log(t, "POST_RESPONSE", resp.access_token, resp.kind, WriteStamp, resp.expires_in, None)
    /\ IF resp.kind = "http_error"
       THEN /\ Raise(t, "HTTPError")
            /\ UNCHANGED access_token
       ELSE IF resp.kind = "no_access_token"
       THEN /\ Raise(t, "KeyError")
            /\ UNCHANGED access_token
       ELSE /\ access_token' = resp.access_token
            /\ stack' = [stack EXCEPT ![t][Len(stack[t])] =
                            [@ EXCEPT !.pc = "expires", !.num = resp.expires_in]]
            /\ UNCHANGED <<ret, done>>
    /\ UNCHANGED <<token_expires, csrf_token, constructed, creds, factory, cli, now, pre>>

\* if "expires_in" in token_data: self._token_expires = now + expires_in
fetch_access_token_expires(t) ==
    /\ At(t, "_fetch_access_token", "expires")
    /\ token_expires' = IF Top(t).num # NoExpiresIn
                        THEN now + Top(t).num
                        ELSE token_expires
    /\ Goto(t, "return")
    /\ UNCHANGED <<access_token, csrf_token, constructed, creds, factory, cli, now, ret, ev, pre, done>>

\* return self._access_token
fetch_access_token_return(t) ==
    /\ At(t, "_fetch_access_token", "return")
    /\ Return(t, access_token)
    /\ UNCHANGED <<access_token, token_expires, csrf_token, constructed, creds, factory, cli, now, ev, pre>>

(* get_access_token *)

\* the check with a caller that finds another caller's fetch under way waiting for it
\* and taking what it stored
get_access_token_check_single_flight(t) ==
    /\ At(t, "get_access_token", "start")
    /\ IF /\ access_token = None \/ is_token_expired(token_expires, now)
          /\ \A u \in Threads \ {t} :
                 \A i \in DOMAIN stack[u] : stack[u][i].fn # "_fetch_access_token"
       THEN CallFrom(t, "after_fetch", "_fetch_access_token")
       ELSE Goto(t, "cached")
    /\ Log(t, "CHECK", access_token,
           IF access_token = None THEN "not_called"
           ELSE IF is_token_expired(token_expires, now) THEN "True" ELSE "False",
           now, token_expires, None)
    /\ UNCHANGED <<access_token, token_expires, csrf_token, constructed, creds, factory, cli, now,
                   ret, pre, done>>

get_access_token_check(t) ==
    /\ At(t, "get_access_token", "start")
    /\ IF access_token = None \/ is_token_expired(token_expires, now)
       THEN CallFrom(t, "after_fetch", "_fetch_access_token")
       ELSE Goto(t, "cached")
    /\ Log(t, "CHECK", access_token,
           IF access_token = None THEN "not_called"
           ELSE IF is_token_expired(token_expires, now) THEN "True" ELSE "False",
           now, token_expires, None)
    /\ UNCHANGED <<access_token, token_expires, csrf_token, constructed, creds, factory, cli, now,
                   ret, pre, done>>

\* the return after a fetch handing back the token read before the fetch
get_access_token_return_fetched_old(t) ==
    /\ At(t, "get_access_token", "after_fetch")
    /\ Return(t, LET checks == {i \in DOMAIN ev[t] : ev[t][i].e = "CHECK"}
                 IN  ev[t][CHOOSE i \in checks : \A j \in checks : j <= i].a)
    /\ UNCHANGED <<access_token, token_expires, csrf_token, constructed, creds, factory, cli, now,
                   ev, pre>>

get_access_token_return_fetched(t) ==
    /\ At(t, "get_access_token", "after_fetch")
    /\ Return(t, ret[t])
    /\ UNCHANGED <<access_token, token_expires, csrf_token, constructed, creds, factory, cli, now, ev, pre>>

get_access_token_return_cached(t) ==
    /\ At(t, "get_access_token", "cached")
    /\ Return(t, access_token)
    /\ UNCHANGED <<access_token, token_expires, csrf_token, constructed, creds, factory, cli, now, ev, pre>>

(* _fetch_csrf_token *)

\* the header built from self._access_token, without get_access_token()
fetch_csrf_token_get_access_token_unchecked(t) ==
    /\ At(t, "_fetch_csrf_token", "start")
    /\ Goto(t, "after_access_token")
    /\ ret' = [ret EXCEPT ![t] = access_token]
    /\ UNCHANGED <<access_token, token_expires, csrf_token, constructed, creds, factory, cli, now,
                   ev, pre, done>>

\* headers = {"Authorization": f"{self.token_type} {self.get_access_token()}"}
fetch_csrf_token_get_access_token(t) ==
    /\ At(t, "_fetch_csrf_token", "start")
    /\ CallFrom(t, "after_access_token", "get_access_token")
    /\ UNCHANGED <<access_token, token_expires, csrf_token, constructed, creds, factory, cli, now,
                   ret, ev, pre, done>>

\* the GET sent with the cached CSRF token dropped first
fetch_csrf_token_get_clears(t) ==
    /\ At(t, "_fetch_csrf_token", "after_access_token")
    /\ stack' = [stack EXCEPT ![t][Len(stack[t])] =
                    [@ EXCEPT !.pc = "await_get", !.loc = ret[t]]]
    /\ Log(t, "GET", ret[t], access_token, 0, 0, token_type)
    /\ csrf_token' = None
    /\ UNCHANGED <<access_token, token_expires, constructed, creds, factory, cli, now,
                   ret, pre, done>>

\* self.session.get(base_url / "api/v1/security/csrf_token/", headers=headers)
fetch_csrf_token_get(t) ==
    /\ At(t, "_fetch_csrf_token", "after_access_token")
    /\ stack' = [stack EXCEPT ![t][Len(stack[t])] =
                    [@ EXCEPT !.pc = "await_get", !.loc = ret[t]]]
    /\ Log(t, "GET", ret[t], access_token, 0, 0, token_type)
    /\ UNCHANGED <<access_token, token_expires, csrf_token, constructed, creds, factory, cli, now,
                   ret, pre, done>>

\* the answer handled with its result assigned to the access token field
fetch_csrf_token_response_wrong_field(t, resp) ==
    /\ At(t, "_fetch_csrf_token", "await_get")
    /\ Log(t, "GET_RESPONSE", resp.result, resp.kind, 0, 0, None)
    /\ IF resp.kind = "http_error"
       THEN /\ Raise(t, "HTTPError")
            /\ UNCHANGED access_token
       ELSE /\ access_token' = resp.result
            /\ Goto(t, "return")
            /\ UNCHANGED <<ret, done>>
    /\ UNCHANGED <<csrf_token, token_expires, constructed, creds, factory, cli, now, pre>>

\* the answer: raise_for_status(), then self._csrf_token = json().get("result")
fetch_csrf_token_response(t, resp) ==
    /\ At(t, "_fetch_csrf_token", "await_get")
    /\ Log(t, "GET_RESPONSE", resp.result, resp.kind, 0, 0, None)
    /\ IF resp.kind = "http_error"
       THEN /\ Raise(t, "HTTPError")
            /\ UNCHANGED csrf_token
       ELSE /\ csrf_token' = resp.result
            /\ Goto(t, "return")
            /\ UNCHANGED <<ret, done>>
    /\ UNCHANGED <<access_token, token_expires, constructed, creds, factory, cli, now, pre>>

\* return self._csrf_token
fetch_csrf_token_return(t) ==
    /\ At(t, "_fetch_csrf_token", "return")
    /\ Return(t, csrf_token)
    /\ UNCHANGED <<access_token, token_expires, csrf_token, constructed, creds, factory, cli, now, ev, pre>>

(* get_csrf_token *)

\* the check as the docstring describes it: fetch again when the access token is stale
get_csrf_token_check_refetch_when_stale(t) ==
    /\ At(t, "get_csrf_token", "start")
    /\ IF \/ csrf_token = None
          \/ access_token = None
          \/ is_token_expired(token_expires, now)
       THEN CallFrom(t, "after_fetch", "_fetch_csrf_token")
       ELSE Goto(t, "cached")
    /\ UNCHANGED <<access_token, token_expires, csrf_token, constructed, creds, factory, cli, now,
                   ret, ev, pre, done>>

get_csrf_token_check(t) ==
    /\ At(t, "get_csrf_token", "start")
    /\ IF csrf_token = None
       THEN CallFrom(t, "after_fetch", "_fetch_csrf_token")
       ELSE Goto(t, "cached")
    /\ UNCHANGED <<access_token, token_expires, csrf_token, constructed, creds, factory, cli, now,
                   ret, ev, pre, done>>

\* the return after a fetch going round again while no CSRF token is stored
get_csrf_token_return_fetched_loop(t) ==
    /\ At(t, "get_csrf_token", "after_fetch")
    /\ IF csrf_token = None
       THEN /\ Goto(t, "start")
            /\ UNCHANGED <<ret, done>>
       ELSE Return(t, ret[t])
    /\ UNCHANGED <<access_token, token_expires, csrf_token, constructed, creds, factory, cli, now,
                   ev, pre>>

get_csrf_token_return_fetched(t) ==
    /\ At(t, "get_csrf_token", "after_fetch")
    /\ Return(t, ret[t])
    /\ UNCHANGED <<access_token, token_expires, csrf_token, constructed, creds, factory, cli, now, ev, pre>>

get_csrf_token_return_cached(t) ==
    /\ At(t, "get_csrf_token", "cached")
    /\ Return(t, csrf_token)
    /\ UNCHANGED <<access_token, token_expires, csrf_token, constructed, creds, factory, cli, now, ev, pre>>

(* get_headers *)

get_headers_get_access_token(t) ==
    /\ At(t, "get_headers", "start")
    /\ CallFrom(t, "after_access_token", "get_access_token")
    /\ UNCHANGED <<access_token, token_expires, csrf_token, constructed, creds, factory, cli, now,
                   ret, ev, pre, done>>

get_headers_get_csrf_token(t) ==
    /\ At(t, "get_headers", "after_access_token")
    /\ stack' = [stack EXCEPT ![t] =
                    Append([@ EXCEPT ![Len(@)] =
                                [@ EXCEPT !.pc = "after_csrf_token", !.loc = ret[t]]],
                           Frame("get_csrf_token"))]
    /\ UNCHANGED <<access_token, token_expires, csrf_token, constructed, creds, factory, cli, now,
                   ret, ev, pre, done>>

\* return {"Authorization": ..., "X-CSRFToken": ...}
get_headers_return(t) ==
    /\ At(t, "get_headers", "after_csrf_token")
    /\ stack' = [stack EXCEPT ![t] = <<>>]
    /\ ret' = [ret EXCEPT ![t] = ret[t]]
    /\ done' = [done EXCEPT ![t].status = "returned", ![t].val = ret[t],
                            ![t].authz = Top(t).loc,
                            ![t].authz_type = token_type]
    /\ UNCHANGED <<access_token, token_expires, csrf_token, constructed, creds, factory, cli, now, ev, pre>>

(* the clock *)

Tick ==
    /\ now < MaxTime
    /\ now' = now + 1
    /\ UNCHANGED <<access_token, token_expires, csrf_token, constructed, creds, factory, cli,
                   stack, ret, ev, pre, done>>

----------------------------------------------------------------------------
(* sup sync run *)

\* the most targets a sync configuration lists, and the most asset types it exports
MaxTargets == 2
MaxAssetTypes == 2

\* workspaces are numbered: the source, the targets in configuration order, and one
\* workspace the sync configuration does not mention
Source == 1
Targets == [i \in 1 .. MaxTargets |-> i + 1]
Outsider == MaxTargets + 2
Workspaces == 1 .. Outsider
NoWorkspace == 0

\* the hostname of workspace w, and no hostname
Host(w) == w
NoHostname == 0

\* --target: not given, a configured target, or one the configuration does not have
NoTarget == 0
TargetOptions == {NoTarget, Outsider} \cup {Targets[i] : i \in DOMAIN Targets}

NoExit == -1

\* the command line, the sync folder and the number of asset types the source exports
SyncArgs ==
    [pull_only : BOOLEAN, push_only : BOOLEAN, dry_run : BOOLEAN, force : BOOLEAN,
     porcelain : BOOLEAN, target : TargetOptions,
     folder : {"ok", "invalid", "unreadable_config"},
     asset_types : 0 .. MaxAssetTypes]

NoArgs ==
    [pull_only |-> FALSE, push_only |-> FALSE, dry_run |-> FALSE, force |-> FALSE,
     porcelain |-> FALSE, target |-> NoTarget, folder |-> "ok", asset_types |-> 0]

\* the stored context: no current workspace, or a current workspace (as `sup workspace
\* use` sets it) with its hostname cached or not
Contexts ==
    {[workspace_id |-> NoWorkspace, hostname |-> NoHostname],
     [workspace_id |-> Source, hostname |-> Host(Source)],
     [workspace_id |-> Outsider, hostname |-> Host(Outsider)],
     [workspace_id |-> Outsider, hostname |-> NoHostname]}

NoCtx == [workspace_id |-> NoWorkspace, hostname |-> NoHostname]

Started ==
    [pc |-> "start", selected |-> <<>>, next |-> 1, left |-> 0, exit |-> NoExit,
     client |-> NoHostname]

NoSyncRun ==
    /\ args = NoArgs
    /\ sync = [Started EXCEPT !.pc = "none"]
    /\ effects = <<>>
    /\ ctx = NoCtx

\* one entry of effects: the prompt, the Preset API's workspace list, a Superset client
\* created for workspace ws at hostname host, the assets folder created, an export
\* from or an import into the client's workspace (ok: how it ended), the debug bundle
\* written
Effect(kind, ws, host, ok) == [kind |-> kind, ws |-> ws, host |-> host, ok |-> ok]

\* the variables of the handler and its callers
handler == <<access_token, token_expires, csrf_token, constructed, creds, factory,
             now, stack, ret, ev, pre, done>>

\* raise typer.Exit(code)
Exit(code) == sync' = [sync EXCEPT !.pc = "exited", !.exit = code]

\* ctx.get_workspace_hostname(): the hostname the context has cached
get_workspace_hostname(c) == c.hostname

\* ctx.set_workspace_context(workspace_id, hostname=hostname)
set_workspace_context(c, w, hostname) == [workspace_id |-> w, hostname |-> hostname]

\* SupSupersetClient.from_context(ctx, workspace_id): c is the context, w the workspace
\* asked for, listed how the Preset API's workspace list answers for w. The result:
\* whether a client was built, the hostname of its URL, whether the API was asked, and
\* the context afterwards
from_context(c, w, listed) ==
    LET id == IF w = NoWorkspace THEN c.workspace_id ELSE w
        cached == get_workspace_hostname(c)
    IN  IF id = NoWorkspace
        THEN [ok |-> FALSE, host |-> NoHostname, asked |-> FALSE, ctx |-> c]
        ELSE IF cached # NoHostname
        THEN [ok |-> TRUE, host |-> cached, asked |-> FALSE, ctx |-> c]
        ELSE IF listed # "ok"
        THEN [ok |-> FALSE, host |-> NoHostname, asked |-> TRUE, ctx |-> c]
        ELSE [ok |-> TRUE, host |-> Host(id), asked |-> TRUE,
              ctx |-> set_workspace_context(c, id, Host(id))]

\* what from_context leaves in effects
ClientEffects(r, w) ==
    (IF r.asked THEN <<Effect("LIST_WORKSPACES", w, NoHostname, TRUE)>> ELSE <<>>)
    \o (IF r.ok THEN <<Effect("CLIENT", w, r.host, TRUE)>> ELSE <<>>)

\* run_sync up to the summary: the flags, the sync folder, the configuration, --target
run_sync_validate ==
    /\ sync.pc = "start"
    /\ IF args.pull_only /\ args.push_only THEN Exit(1)
       ELSE IF args.folder # "ok" THEN Exit(1)
       ELSE IF args.target # NoTarget
                /\ args.target \notin {Targets[i] : i \in DOMAIN Targets}
       THEN Exit(1)
       ELSE sync' = [sync EXCEPT !.pc = "confirm",
                                 !.selected = IF args.target = NoTarget THEN Targets
                                              ELSE <<args.target>>]
    /\ UNCHANGED <<args, effects, ctx, handler>>

\* if not porcelain: display_sync_summary(...); if not force and not dry_run:
\* typer.confirm(...), and Exit(0) when the answer is no
run_sync_confirm ==
    /\ sync.pc = "confirm"
    /\ IF ~args.porcelain /\ ~args.force /\ ~args.dry_run
       THEN /\ effects' = Append(effects, Effect("PROMPT", NoWorkspace, NoHostname, TRUE))
            /\ \/ sync' = [sync EXCEPT !.pc = "pull"]
               \/ Exit(0)
       ELSE /\ sync' = [sync EXCEPT !.pc = "pull"]
            /\ UNCHANGED effects
    /\ UNCHANGED <<args, ctx, handler>>

\* if not push_only: execute_pull(...), up to the loop over the asset types: nothing on
\* a dry run, else the client for the source workspace and the assets folder
execute_pull ==
    /\ sync.pc = "pull"
    /\ IF args.push_only \/ args.dry_run
       THEN /\ sync' = [sync EXCEPT !.pc = "push"]
            /\ UNCHANGED <<effects, ctx>>
       ELSE \E listed \in {"ok", "not_found", "no_hostname"} :
                LET r == from_context(ctx, Source, listed)
                IN  /\ ctx' \in {ctx, r.ctx}
                    /\ IF r.ok
                       THEN /\ effects' = effects \o ClientEffects(r, Source)
                                   \o <<Effect("MKDIR", Source, NoHostname, TRUE)>>
                            /\ sync' = [sync EXCEPT !.pc = "export",
                                                    !.client = r.host,
                                                    !.left = args.asset_types]
                       ELSE /\ effects' = effects \o ClientEffects(r, Source)
                            /\ Exit(1)
    /\ UNCHANGED <<args, handler>>

\* the export loop with a failed export skipped
execute_pull_export_skip_failed ==
    /\ sync.pc = "export"
    /\ IF sync.left = 0
       THEN /\ sync' = [sync EXCEPT !.pc = "push"]
            /\ UNCHANGED effects
       ELSE \E ok \in BOOLEAN :
                /\ effects' = Append(effects, Effect("EXPORT", Source, sync.client, ok))
                /\ sync' = [sync EXCEPT !.left = @ - 1]
    /\ UNCHANGED <<args, ctx, handler>>

\* for asset_type in [...]: export_resource(...); an exception leaves execute_pull and
\* run_sync turns it into Exit(1)
execute_pull_export ==
    /\ sync.pc = "export"
    /\ IF sync.left = 0
       THEN /\ sync' = [sync EXCEPT !.pc = "push"]
            /\ UNCHANGED effects
       ELSE \E ok \in BOOLEAN :
                /\ effects' = Append(effects, Effect("EXPORT", Source, sync.client, ok))
                /\ IF ok THEN sync' = [sync EXCEPT !.left = @ - 1] ELSE Exit(1)
    /\ UNCHANGED <<args, ctx, handler>>

\* the head of the push loop without its dry-run branch
execute_push_no_dry_run ==
    /\ sync.pc = "push"
    /\ IF args.pull_only \/ sync.next > Len(sync.selected)
       THEN /\ Exit(0)
            /\ UNCHANGED <<effects, ctx>>
       ELSE \E listed \in {"ok", "not_found", "no_hostname"} :
                LET w == sync.selected[sync.next]
                    r == from_context(ctx, w, listed)
                IN  /\ ctx' \in {ctx, r.ctx}
                    /\ effects' = effects \o ClientEffects(r, w)
                    /\ IF r.ok
                       THEN sync' = [sync EXCEPT !.pc = "import", !.client = r.host]
                       ELSE Exit(1)
    /\ UNCHANGED <<args, handler>>

\* if not pull_only: execute_push(...): for target in targets, up to the client for the
\* target's workspace; after the last target run_sync returns
execute_push ==
    /\ sync.pc = "push"
    /\ IF args.pull_only \/ sync.next > Len(sync.selected)
       THEN /\ Exit(0)
            /\ UNCHANGED <<effects, ctx>>
       ELSE IF args.dry_run
       THEN /\ sync' = [sync EXCEPT !.next = @ + 1]
            /\ UNCHANGED <<effects, ctx>>
       ELSE \E listed \in {"ok", "not_found", "no_hostname"} :
                LET w == sync.selected[sync.next]
                    r == from_context(ctx, w, listed)
                IN  /\ ctx' \in {ctx, r.ctx}
                    /\ effects' = effects \o ClientEffects(r, w)
                    /\ IF r.ok
                       THEN sync' = [sync EXCEPT !.pc = "import", !.client = r.host]
                       ELSE Exit(1)
    /\ UNCHANGED <<args, handler>>

\* the rest of the loop body with a failed import passed over
execute_push_import_continue ==
    /\ sync.pc = "import"
    /\ \E outcome \in {"no_folder", "no_assets", "ok", "failed"} :
           LET w == sync.selected[sync.next]
           IN  IF outcome = "no_folder"
               THEN /\ Exit(1)
                    /\ UNCHANGED effects
               ELSE IF outcome = "no_assets"
               THEN /\ sync' = [sync EXCEPT !.pc = "push", !.next = @ + 1]
                    /\ UNCHANGED effects
               ELSE /\ effects' = effects
                          \o (IF args.porcelain THEN <<>>
                              ELSE <<Effect("WRITE", w, NoHostname, TRUE)>>)
                          \o <<Effect("IMPORT", w, sync.client, outcome = "ok")>>
                    /\ sync' = [sync EXCEPT !.pc = "push", !.next = @ + 1]
    /\ UNCHANGED <<args, ctx, handler>>

\* the rest of the loop body: the assets folder, the rendered files, the debug bundle
\* (unless --porcelain), import_resources_individually(...); an exception leaves
\* execute_push and run_sync turns it into Exit(1)
execute_push_import ==
    /\ sync.pc = "import"
    /\ \E outcome \in {"no_folder", "no_assets", "ok", "failed"} :
           LET w == sync.selected[sync.next]
           IN  IF outcome = "no_folder"
               THEN /\ Exit(1)
                    /\ UNCHANGED effects
               ELSE IF outcome = "no_assets"
               THEN /\ sync' = [sync EXCEPT !.pc = "push", !.next = @ + 1]
                    /\ UNCHANGED effects
               ELSE /\ effects' = effects
                          \o (IF args.porcelain THEN <<>>
                              ELSE <<Effect("WRITE", w, NoHostname, TRUE)>>)
                          \o <<Effect("IMPORT", w, sync.client, outcome = "ok")>>
                    /\ IF outcome = "ok"
                       THEN sync' = [sync EXCEPT !.pc = "push", !.next = @ + 1]
                       ELSE Exit(1)
    /\ UNCHANGED <<args, ctx, handler>>

----------------------------------------------------------------------------
Methods == {"auth", "get_access_token", "get_csrf_token", "get_headers",
            "_fetch_access_token", "_fetch_csrf_token"}

\* the steps inside the methods of OAuthSupersetAuth
Inner(t) ==
    \/ init_call_auth(t)
    \/ init_return(t)
    \/ auth_fetch_access_token(t)
    \/ auth_fetch_csrf_token(t)
    \/ auth_return(t)
    \/ fetch_access_token_post(t)
    \/ \E resp \in TokenResponses : fetch_access_token_response(t, resp)
    \/ fetch_access_token_expires(t)
    \/ fetch_access_token_return(t)
    \/ get_access_token_check(t)
    \/ get_access_token_return_fetched(t)
    \/ get_access_token_return_cached(t)
    \/ fetch_csrf_token_get_access_token(t)
    \/ fetch_csrf_token_get(t)
    \/ \E resp \in CsrfResponses : fetch_csrf_token_response(t, resp)
    \/ fetch_csrf_token_return(t)
    \/ get_csrf_token_check(t)
    \/ get_csrf_token_return_fetched(t)
    \/ get_csrf_token_return_cached(t)
    \/ get_headers_get_access_token(t)
    \/ get_headers_get_csrf_token(t)
    \/ get_headers_return(t)

Step(t) ==
    \/ call_init(t)
    \/ \E fn \in Methods : call_method(t, fn)
    \/ Inner(t)

\* the steps inside create_superset_auth
Create(t) ==
    \/ create_superset_auth_username_password(t)
    \/ create_superset_auth_jwt(t)
    \/ create_superset_auth_oauth(t)
    \/ create_superset_auth_unknown(t)
    \/ other_auth_init(t)
    \/ create_superset_auth_return(t)

NoCall == [op |-> "none", status |-> "none", val |-> None, authz |-> None,
           authz_type |-> None]
NoState == [access_token |-> None, token_expires |-> NoExpiry, csrf_token |-> None,
            after_refresh |-> FALSE, after_init |-> FALSE, auth_csrf |-> NotTracked]

InitCallers ==
    /\ now = 0
    /\ stack = [t \in Threads |-> <<>>]
    /\ ret = [t \in Threads |-> None]
    /\ ev = [t \in Threads |-> <<>>]
    /\ pre = [t \in Threads |-> NoState]
    /\ done = [t \in Threads |-> NoCall]
    /\ missing = <<>>

\* no handler exists yet: the first thing that happens is a construction
Init ==
    /\ InitCallers
    /\ access_token = None
    /\ token_expires = NoExpiry
    /\ csrf_token = None
    /\ constructed = FALSE
    /\ scope = None
    /\ token_type = None
    /\ config = NoConfig
    /\ NoSyncRun

\* one caller, as the handler is meant to be used
Next == Step(1) \/ Tick

Spec == Init /\ [][Next]_vars

\* a handler whose fields were set directly (object.__new__ and attribute
\* assignment, as the unit tests build it), or no handler yet
InitFields ==
    /\ InitCallers
    /\ access_token \in Tokens \cup {None}
    /\ token_expires \in {NoExpiry} \cup (Buffer .. Buffer + MaxTime)
    /\ csrf_token \in CsrfTokens \cup {None}
    /\ constructed \in BOOLEAN
    /\ ~constructed =>
          access_token = None /\ token_expires = NoExpiry /\ csrf_token = None
    /\ scope = IF constructed THEN DefaultScope ELSE None
    /\ token_type = IF constructed THEN DefaultTokenType ELSE None
    /\ config = NoConfig
    /\ NoSyncRun

SpecFields == InitFields /\ [][Next]_vars

\* the same, with a call that has started always taking its next step: the interpreter
\* runs on and every request is answered
SpecFieldsLive == InitFields /\ [][Next]_vars /\ WF_vars(Inner(1))

\* create_superset_auth is called once, with any of the configurations, and the handler
\* it returns is then used by the one caller
InitFactory ==
    /\ InitCallers
    /\ access_token = None
    /\ token_expires = NoExpiry
    /\ csrf_token = None
    /\ constructed = FALSE
    /\ scope = None
    /\ token_type = None
    /\ config \in Configs
    /\ NoSyncRun

FactoryMethods == {"get_headers", "get_access_token"}

NextFactory ==
    \/ done[1].op = "none" /\ call_create_superset_auth(1)
    \/ Create(1)
    \/ Inner(1)
    \/ \E fn \in FactoryMethods : call_method(1, fn)
    \/ Tick

SpecFactory == InitFactory /\ [][NextFactory]_vars

\* two callers share a handler whose token is stale, and each calls get_access_token
\* once, their steps interleaved in every order
InitConc ==
    /\ InitCallers
    /\ access_token = "T1"
    /\ token_expires \in {NoExpiry, Buffer}
    /\ csrf_token \in CsrfTokens \cup {None}
    /\ constructed = TRUE
    /\ scope = DefaultScope
    /\ token_type = DefaultTokenType
    /\ config = NoConfig
    /\ NoSyncRun

GetAccessToken(t) ==
    \/ done[t].op = "none" /\ call_method(t, "get_access_token")
    \/ get_access_token_check(t)
    \/ fetch_access_token_post(t)
    \/ \E resp \in TokenResponses : fetch_access_token_response(t, resp)
    \/ fetch_access_token_expires(t)
    \/ fetch_access_token_return(t)
    \/ get_access_token_return_fetched(t)
    \/ get_access_token_return_cached(t)

NextConc == (\E t \in Threads : GetAccessToken(t)) \/ Tick

SpecConc == InitConc /\ [][NextConc]_vars

\* one `sup sync run`, with any command line, sync folder and stored context; the
\* handler of the other specifications is not involved
InitSync ==
    /\ InitCallers
    /\ access_token = None
    /\ token_expires = NoExpiry
    /\ csrf_token = None
    /\ constructed = FALSE
    /\ scope = None
    /\ token_type = None
    /\ config = NoConfig
    /\ args \in SyncArgs
    /\ sync = Started
    /\ effects = <<>>
    /\ ctx \in Contexts

NextSync ==
    \/ run_sync_validate
    \/ run_sync_confirm
    \/ execute_pull
    \/ execute_pull_export
    \/ execute_push
    \/ execute_push_import

SpecSync == InitSync /\ [][NextSync]_vars

----------------------------------------------------------------------------
(* Reading the record of a call *)

Ended(t) == Idle(t) /\ done[t].status \in {"returned", "raised"}
Returned(t) == Idle(t) /\ done[t].status = "returned"
Raised(t) == Idle(t) /\ done[t].status = "raised"

Indices(t, kind) == {i \in 1 .. Len(ev[t]) : ev[t][i].e = kind}
Posts(t) == Cardinality(Indices(t, "POST"))
Gets(t) == Cardinality(Indices(t, "GET"))

\* the network requests of the call, in the order they left
Requests(t) == SelectSeq([i \in 1 .. Len(ev[t]) |-> ev[t][i].e],
                         LAMBDA k : k \in {"POST", "GET"})

\* the token state is what it was when the outermost call started
StateAsAtCall(t) ==
    /\ access_token = pre[t].access_token
    /\ token_expires = pre[t].token_expires
    /\ csrf_token = pre[t].csrf_token

\* the expiry policy as the specification words it, on what a CHECK entry saw
PolicyStale(c) == c.a = None \/ c.x = NoExpiry \/ c.n >= c.x - Buffer
PolicyFresh(c) == c.a # None /\ c.x # NoExpiry /\ c.n < c.x - Buffer

----------------------------------------------------------------------------
(* C1: get_access_token, called while a token is stored and now < expiry - 5 min,
   returns the stored token, sends no request and leaves access token, expiry and
   CSRF token as they were. *)
C1_CacheHit ==
    (/\ done[1].op = "get_access_token"
     /\ Len(ev[1]) >= 1
     /\ PolicyFresh(ev[1][1]))
    => /\ Posts(1) = 0
       /\ Gets(1) = 0
       /\ StateAsAtCall(1)
       /\ ~Raised(1)
       /\ Returned(1) => done[1].val = pre[1].access_token

C1_Witness ==
    /\ Returned(1)
    /\ done[1].op = "get_access_token"
    /\ PolicyFresh(ev[1][1])
    /\ done[1].val \in Tokens
    /\ csrf_token # None

(* C2: get_access_token, called while the stored token is stale (no token, no expiry,
   or now >= expiry - 5 min), sends exactly one token POST and nothing else; when the
   POST is answered with a token, that token is stored and returned; when it is not,
   the call raises. *)
C2_StaleRefresh ==
    (/\ done[1].op = "get_access_token"
     /\ Len(ev[1]) >= 1
     /\ PolicyStale(ev[1][1]))
    => /\ Posts(1) <= 1
       /\ Gets(1) = 0
       /\ Ended(1) =>
            /\ Requests(1) = <<"POST">>
            /\ Len(ev[1]) = 3
            /\ ev[1][3].e = "POST_RESPONSE"
            /\ IF ev[1][3].b = "ok"
               THEN /\ Returned(1)
                    /\ done[1].val = ev[1][3].a
                    /\ access_token = ev[1][3].a
               ELSE Raised(1)

\* the case of the specification: a cached token inside the buffer but not yet past
\* its nominal expiry is replaced by a different one
C2_Witness ==
    /\ Returned(1)
    /\ done[1].op = "get_access_token"
    /\ pre[1].access_token \in Tokens
    /\ ev[1][1].x # NoExpiry
    /\ ev[1][1].n >= ev[1][1].x - Buffer
    /\ ev[1][1].n < ev[1][1].x
    /\ done[1].val # pre[1].access_token

(* C3: the expiry check answers true exactly when no expiry is recorded or
   now >= expiry - 5 min: true at now = expiry - 5 min, false at every earlier now,
   true whenever no expiry is recorded. *)
C3_ExpiryCheck ==
    \A i \in Indices(1, "CHECK") :
        ev[1][i].b # "not_called" =>
            (ev[1][i].b = "True"
                <=> (ev[1][i].x = NoExpiry \/ ev[1][i].n >= ev[1][i].x - Buffer))

\* one call that checks the same expiry twice: one minute before the boundary
\* (false) and at the boundary (true)
C3_Witness ==
    \E i, j \in Indices(1, "CHECK") :
        /\ ev[1][i].b = "False"
        /\ ev[1][i].n = ev[1][i].x - Buffer - 1
        /\ ev[1][j].b = "True"
        /\ ev[1][j].x = ev[1][i].x
        /\ ev[1][j].n = ev[1][j].x - Buffer

\* every answer the call received was a well-formed success
AllAnswersOk(t) ==
    \A i \in 1 .. Len(ev[t]) :
        ev[t][i].e \in {"POST_RESPONSE", "GET_RESPONSE"} => ev[t][i].b = "ok"

\* the get_headers call follows a construction whose CSRF GET was answered with a
\* result (the token POSTs of a construction that returned were all answered with a
\* token), and its expiry check finds the stored token inside its validity window
HeadersAfterInitInWindow(t) ==
    /\ done[t].op = "get_headers"
    /\ pre[t].after_init
    /\ pre[t].csrf_token # None
    /\ Len(ev[t]) >= 1
    /\ PolicyFresh(ev[t][1])

(* C4 as stated: a construction against endpoints that answer successfully sends
   exactly two requests, one token POST then one CSRF GET, and the next get_headers()
   inside the validity window sends none. *)
C4_Original ==
    /\ (Returned(1) /\ done[1].op = "__init__" /\ AllAnswersOk(1))
         => Requests(1) = <<"POST", "GET">>
    /\ HeadersAfterInitInWindow(1) => Posts(1) = 0 /\ Gets(1) = 0

(* C4 amended: a construction against endpoints that answer successfully sends one
   token POST, then a second token POST exactly when the token just stored is already
   expired by the policy at the check _fetch_csrf_token makes (no expires_in in the
   answer, or now >= expiry - 5 min), then one CSRF GET; the next get_headers() whose
   check finds the token inside its validity window sends no request. *)
C4_Construction ==
    /\ (Returned(1) /\ done[1].op = "__init__" /\ AllAnswersOk(1))
         => /\ Len(ev[1]) >= 3
            /\ ev[1][3].e = "CHECK"
            /\ Requests(1) = IF PolicyStale(ev[1][3])
                             THEN <<"POST", "POST", "GET">>
                             ELSE <<"POST", "GET">>
    /\ HeadersAfterInitInWindow(1) =>
            /\ Posts(1) = 0
            /\ Gets(1) = 0
            /\ ~Raised(1)

C4_Witness ==
    /\ Returned(1)
    /\ HeadersAfterInitInWindow(1)
    /\ done[1].authz = access_token
    /\ done[1].val = csrf_token

(* C5: whenever get_headers or get_csrf_token sends a CSRF GET, get_access_token has
   checked the token just before - it found the token fresh by the policy, or it
   sent a POST and the answer's token is the one used - and the GET's Authorization
   header carries the access token stored when the GET leaves. *)
C5_TokenBeforeCsrfGet ==
    done[1].op \in {"get_headers", "get_csrf_token"} =>
        \A i \in Indices(1, "GET") :
            /\ ev[1][i].a = ev[1][i].b
            /\ ev[1][i].a # None
            /\ \/ /\ i >= 2
                  /\ ev[1][i - 1].e = "CHECK"
                  /\ PolicyFresh(ev[1][i - 1])
                  /\ ev[1][i - 1].a = ev[1][i].a
               \/ /\ i >= 4
                  /\ ev[1][i - 3].e = "CHECK"
                  /\ PolicyStale(ev[1][i - 3])
                  /\ ev[1][i - 2].e = "POST"
                  /\ ev[1][i - 1].e = "POST_RESPONSE"
                  /\ ev[1][i - 1].b = "ok"
                  /\ ev[1][i - 1].a = ev[1][i].a

\* a get_headers call whose GET carries a token fetched inside the call, not the one
\* that was stored when the call started
C5_Witness ==
    /\ done[1].op = "get_headers"
    /\ \E i \in Indices(1, "GET") :
          /\ ev[1][i - 1].e = "POST_RESPONSE"
          /\ ev[1][i].a = access_token
          /\ ev[1][i].a # pre[1].access_token
          /\ pre[1].access_token # None

(* C6: a token fetch that fails - a non-2xx answer, or a 2xx answer without
   access_token - raises to the caller and leaves access token, expiry and CSRF token
   as they were when the POST was sent. *)
C6_FailedFetchKeepsState ==
    \A i \in Indices(1, "POST_RESPONSE") :
        ev[1][i].b # "ok" =>
            /\ i = Len(ev[1])
            /\ Raised(1)
            /\ done[1].val = IF ev[1][i].b = "http_error" THEN "HTTPError" ELSE "KeyError"
            /\ ev[1][i - 1].e = "POST"
            /\ access_token = ev[1][i - 1].a
            /\ csrf_token = ev[1][i - 1].b
            /\ token_expires = ev[1][i - 1].x

\* a 2xx answer without access_token while a token, an expiry and a CSRF token are cached
C6_Witness ==
    /\ Raised(1)
    /\ Len(ev[1]) >= 2
    /\ ev[1][Len(ev[1])].e = "POST_RESPONSE"
    /\ ev[1][Len(ev[1])].b = "no_access_token"
    /\ access_token \in Tokens
    /\ token_expires # NoExpiry
    /\ csrf_token \in CsrfTokens

(* C7: a construction either raises or completes with both an access token and a
   CSRF token stored. *)
C7_NoPartialConstruction ==
    (Returned(1) /\ done[1].op = "__init__") =>
        access_token # None /\ csrf_token # None

(* C8: a CSRF fetch answered 2xx without a result field fails with an error and
   neither stores nor returns an empty CSRF token; one answered non-2xx fails and
   leaves the stored CSRF token unchanged. *)
C8_CsrfFetchFailures ==
    \A i \in Indices(1, "GET_RESPONSE") :
        ev[1][i].b # "ok" =>
            /\ Raised(1)
            /\ csrf_token = pre[1].csrf_token

(* C9: with a CSRF token stored, get_csrf_token returns it without any request and
   without changing the state, also while the access token is stale; it sends the
   CSRF GET only when none is stored. *)
C9_CsrfCacheHit ==
    done[1].op = "get_csrf_token" =>
        /\ pre[1].csrf_token # None =>
              /\ ev[1] = <<>>
              /\ StateAsAtCall(1)
              /\ ~Raised(1)
              /\ Returned(1) => done[1].val = pre[1].csrf_token
        /\ Gets(1) >= 1 => pre[1].csrf_token = None
        /\ (Returned(1) /\ pre[1].csrf_token = None) => Gets(1) = 1

\* the cache hit while a stored access token is past expiry - 5 min
C9_Witness ==
    /\ Returned(1)
    /\ done[1].op = "get_csrf_token"
    /\ done[1].val \in CsrfTokens
    /\ access_token # None
    /\ token_expires # NoExpiry
    /\ now >= token_expires - Buffer

(* C10: a refresh through get_access_token changes the access token and the expiry
   only: it sends no CSRF GET and leaves the CSRF token alone, so through any run of
   get_access_token calls that follows an auth() the stored CSRF token is still the
   one that auth() left. *)
C10_RefreshKeepsCsrf ==
    done[1].op = "get_access_token" =>
        /\ Gets(1) = 0
        /\ csrf_token = pre[1].csrf_token
        /\ pre[1].auth_csrf # NotTracked => csrf_token = pre[1].auth_csrf

\* the second of two refreshes in a row after an auth() that stored a CSRF token
C10_Witness ==
    /\ Returned(1)
    /\ done[1].op = "get_access_token"
    /\ pre[1].auth_csrf \in CsrfTokens
    /\ pre[1].after_refresh
    /\ Posts(1) = 1
    /\ access_token # pre[1].access_token
    /\ csrf_token = pre[1].auth_csrf

----------------------------------------------------------------------------
\* the last token answer in ev that was stored, or 0
LastStored(t) ==
    LET oks == {i \in DOMAIN ev[t] : ev[t][i].e = "POST_RESPONSE" /\ ev[t][i].b = "ok"}
    IN  IF oks = {} THEN 0 ELSE CHOOSE i \in oks : \A j \in oks : j <= i

\* C11: once _fetch_access_token has handled a successful answer, the recorded expiry
\* follows that answer alone: none when the answer had no expires_in (also when an
\* expiry was recorded before), the time of the fetch plus expires_in when it had one.
C11_ExpiryFollowsAnswer ==
    (/\ LastStored(1) # 0
     /\ LastStored(1) = Len(ev[1])
     /\ At(1, "_fetch_access_token", "return"))
        => LET answer == ev[1][LastStored(1)]
           IN  IF answer.x = NoExpiresIn
               THEN token_expires = NoExpiry
               ELSE token_expires - answer.x \in 0 .. now

----------------------------------------------------------------------------
\* the create_superset_auth call of caller t is past its validation
Validated(t) ==
    /\ done[t].op = "create_superset_auth"
    /\ ~At(t, "create_superset_auth", "start")

\* the required oauth fields, by the names the error message uses, that the
\* configuration leaves absent or empty
AbsentOAuth(cfg) ==
    {name \in {"token_url", "client_id", "client_secret", "username", "password"} :
        LET value == CASE name = "token_url" -> cfg.oauth_token_url
                       [] name = "client_id" -> cfg.oauth_client_id
                       [] name = "client_secret" -> cfg.oauth_client_secret
                       [] name = "username" -> cfg.oauth_username
                       [] name = "password" -> cfg.oauth_password
        IN  value = None \/ value = ""}

\* C12: for auth_method oauth, create_superset_auth raises its "Missing" ValueError
\* exactly when some of the five required fields are absent or empty, and the Missing
\* list then names each absent field once and nothing else.
C12_MissingListsAllAbsent ==
    (Validated(1) /\ config.auth_method = "oauth")
        => /\ (done[1].status = "raised" /\ done[1].val = "ValueError: Missing")
                  <=> AbsentOAuth(config) # {}
           /\ {missing[i] : i \in DOMAIN missing} = AbsentOAuth(config)
           /\ Len(missing) = Cardinality(AbsentOAuth(config))

\* two fields absent, one as None and one as "", and both are listed
C12_Witness ==
    /\ Validated(1)
    /\ config.auth_method = "oauth"
    /\ config.oauth_client_secret = None
    /\ config.oauth_password = ""
    /\ AbsentOAuth(config) = {"client_secret", "password"}
    /\ Raised(1)
    /\ missing = <<"client_secret", "password">>

----------------------------------------------------------------------------
\* a field of the configuration is absent or empty
Absent(value) == value = None \/ value = ""

\* the configuration lacks a field its auth method requires, or names no known method
InvalidConfig(cfg) ==
    CASE cfg.auth_method = "username_password" ->
             Absent(cfg.username) \/ Absent(cfg.password)
      [] cfg.auth_method = "jwt" -> Absent(cfg.jwt_token)
      [] cfg.auth_method = "oauth" -> AbsentOAuth(cfg) # {}
      [] OTHER -> TRUE

ValueErrors == {"ValueError: username and password", "ValueError: jwt_token",
                "ValueError: Missing", "ValueError: Unknown authentication method"}

\* C13: a create_superset_auth call on a configuration that lacks a required field of
\* its auth method, or names an unknown method, never reaches a constructor and sends
\* no request: it ends by raising ValueError with the token state as it was.
C13_RaisesBeforeConstruction ==
    (done[1].op = "create_superset_auth" /\ InvalidConfig(config))
        => /\ ev[1] = <<>>
           /\ Len(stack[1]) <= 1
           /\ ~constructed
           /\ StateAsAtCall(1)
           /\ Idle(1) => Raised(1) /\ done[1].val \in ValueErrors

\* a jwt configuration with an empty token, and all the other fields set, was refused
C13_Witness ==
    /\ done[1].op = "create_superset_auth"
    /\ config.auth_method = "jwt"
    /\ config.jwt_token = ""
    /\ config.oauth_password = "v"
    /\ Raised(1)
    /\ done[1].val = "ValueError: jwt_token"
    /\ ev[1] = <<>>

----------------------------------------------------------------------------
\* the handler class each auth method names
HandlerClass(method) ==
    CASE method = "username_password" -> "UsernamePasswordAuth"
      [] method = "jwt" -> "SupersetJWTAuth"
      [] method = "oauth" -> "OAuthSupersetAuth"
      [] OTHER -> None

\* the constructor the create_superset_auth call of caller t called, or None
Constructed(t) ==
    IF ev[t] # <<>> /\ ev[t][1].e = "CONSTRUCT" THEN ev[t][1].a ELSE None

\* C14 as stated: a create_superset_auth call returns the handler its auth method
\* names exactly when the fields of that method are all non-empty.
C14_Original ==
    (done[1].op = "create_superset_auth" /\ Ended(1))
        => ((Returned(1) /\ done[1].val = HandlerClass(config.auth_method))
                <=> ~InvalidConfig(config))

\* C14: create_superset_auth calls the constructor of the class its auth method names
\* exactly when the fields of that method are all non-empty, and no other constructor;
\* what it returns is that handler, and it returns it unless the constructor raises; an
\* auth_method other than the three ends in the unknown-method error.
C14_Dispatch ==
    (Validated(1) /\ done[1].op = "create_superset_auth")
        => /\ Constructed(1) = IF InvalidConfig(config) THEN None
                               ELSE HandlerClass(config.auth_method)
           /\ Returned(1) => /\ done[1].val = HandlerClass(config.auth_method)
                             /\ ~InvalidConfig(config)
           /\ (Raised(1) /\ ~InvalidConfig(config)) => done[1].val \notin ValueErrors
           /\ (Ended(1) /\ HandlerClass(config.auth_method) = None)
                  => /\ Raised(1)
                     /\ done[1].val = "ValueError: Unknown authentication method"

\* an oauth configuration that also carries a username, a password and a JWT token
\* gave an OAuthSupersetAuth
C14_Witness ==
    /\ done[1].op = "create_superset_auth"
    /\ config.auth_method = "oauth"
    /\ config.username = "v" /\ config.password = "v" /\ config.jwt_token = "v"
    /\ Returned(1)
    /\ done[1].val = "OAuthSupersetAuth"
    /\ constructed

----------------------------------------------------------------------------
\* C15: the scope in every token POST and the token type in every Authorization header
\* (the CSRF GET's and the returned headers') of the handler create_superset_auth built
\* are the configuration's oauth_scope and oauth_token_type where it sets them, and
\* "openid profile email roles" and "Bearer" where it leaves them out.
C15_ConfiguredScopeAndTokenType ==
    LET wanted_scope == IF config.oauth_scope = Omitted
                        THEN "openid profile email roles" ELSE config.oauth_scope
        wanted_type == IF config.oauth_token_type = Omitted
                       THEN "Bearer" ELSE config.oauth_token_type
    IN  /\ \A i \in DOMAIN ev[1] :
               /\ ev[1][i].e = "POST" => ev[1][i].s = wanted_scope
               /\ ev[1][i].e = "GET" => ev[1][i].s = wanted_type
        /\ (done[1].op = "get_headers" /\ Returned(1))
               => done[1].authz_type = wanted_type

\* a handler built with a custom scope and no token type: a get_headers call that
\* fetched both tokens sent the custom scope and used Bearer
C15_Witness ==
    /\ config.oauth_scope = CustomScope
    /\ config.oauth_token_type = Omitted
    /\ done[1].op = "get_headers"
    /\ Returned(1)
    /\ Requests(1) = <<"POST", "GET">>
    /\ \E i \in DOMAIN ev[1] : ev[1][i].e = "POST" /\ ev[1][i].s = "custom scope"
    /\ \E i \in DOMAIN ev[1] : ev[1][i].e = "GET" /\ ev[1][i].s = "Bearer"
    /\ done[1].authz_type = "Bearer"

----------------------------------------------------------------------------
\* the last entry of kind in ev, or 0
LastOf(t, kind) ==
    IF Indices(t, kind) = {} THEN 0
    ELSE CHOOSE i \in Indices(t, kind) : \A j \in Indices(t, kind) : j <= i

\* C16: an auth() call, in the constructor or on its own, starts with a token POST
\* whatever is cached, sends the CSRF GET only after a token answer was stored, and when
\* it returns it has sent one CSRF GET and both stored tokens are the ones its last
\* token answer and its CSRF answer carried.
C16_AuthFetchesBoth ==
    done[1].op \in {"__init__", "auth"}
        => /\ ev[1] # <<>> => ev[1][1].e = "POST"
           /\ Idle(1) => ev[1] # <<>>
           /\ \A i \in Indices(1, "GET") :
                  \E j \in 1 .. i - 1 :
                      ev[1][j].e = "POST_RESPONSE" /\ ev[1][j].b = "ok"
           /\ Returned(1)
                  => /\ Requests(1) \in {<<"POST", "GET">>, <<"POST", "POST", "GET">>}
                     /\ access_token = ev[1][LastOf(1, "POST_RESPONSE")].a
                     /\ csrf_token = ev[1][LastOf(1, "GET_RESPONSE")].a

\* a re-authentication of a handler that held a token inside its validity window and a
\* CSRF token: both were fetched again and both changed
C16_Witness ==
    /\ done[1].op = "auth"
    /\ Returned(1)
    /\ pre[1].access_token = "T1"
    /\ pre[1].csrf_token = "X1"
    /\ ev[1][1].x - Buffer > now
    /\ Requests(1) = <<"POST", "GET">>
    /\ access_token = "T2"
    /\ csrf_token = "X2"

----------------------------------------------------------------------------
\* the token answers stored so far, by any caller, as <<caller, entry>> pairs
Stored ==
    UNION {{<<u, i>> : i \in {j \in DOMAIN ev[u] : /\ ev[u][j].e = "POST_RESPONSE"
                                                  /\ ev[u][j].b = "ok"}} :
           u \in Threads}

\* C17: with two callers in get_access_token on one handler, nothing holds a caller
\* back: each caller whose check found the token stale sends its own token POST next,
\* also while the other caller's fetch is under way, and the stored access token is
\* always the one of the answer that was handled last.
C17_NoMutualExclusion ==
    /\ \A t \in Threads :
           (ev[t] # <<>> /\ ev[t][1].b # "False")
               => /\ Len(ev[t]) >= 2 => ev[t][2].e = "POST"
                  /\ Idle(t) => Posts(t) = 1
    /\ Stored # {} =>
           \E w \in Stored :
               /\ \A o \in Stored : ev[o[1]][o[2]].n <= ev[w[1]][w[2]].n
               /\ access_token = ev[w[1]][w[2]].a

\* both callers found the token stale and sent a POST before either answer arrived;
\* caller 1's answer was stored first and caller 2's replaced it
C17_Witness ==
    /\ \A t \in Threads :
           /\ Returned(t)
           /\ ev[t][1].b = "True"
           /\ ev[t][2].e = "POST" /\ ev[t][2].a = "T1"
           /\ ev[t][3].e = "POST_RESPONSE" /\ ev[t][3].b = "ok"
    /\ ev[1][3].a = "T2" /\ ev[1][3].n = 1
    /\ ev[2][3].a = "T1" /\ ev[2][3].n = 2
    /\ access_token = "T1"

----------------------------------------------------------------------------
\* entry i of ev is an answer that makes the fetch fail
FailedAnswer(t, i) ==
    \/ ev[t][i].e = "POST_RESPONSE" /\ ev[t][i].b \in {"http_error", "no_access_token"}
    \/ ev[t][i].e = "GET_RESPONSE" /\ ev[t][i].b = "http_error"

\* C18: no request is sent again after it failed: a get_access_token call sends at most
\* one token POST, a get_csrf_token call at most one CSRF GET, and in every call a
\* failed answer is the last thing that happens: the call ends there, raising the
\* error of that answer to its caller.
C18_NoRetry ==
    /\ done[1].op = "get_access_token" => Posts(1) <= 1 /\ Gets(1) = 0
    /\ done[1].op = "get_csrf_token" => Gets(1) <= 1
    /\ \A i \in DOMAIN ev[1] :
           FailedAnswer(1, i)
               => /\ i = Len(ev[1])
                  /\ Raised(1)
                  /\ done[1].val = IF ev[1][i].b = "http_error"
                                   THEN "HTTPError" ELSE "KeyError"

\* a refresh whose POST was answered with an HTTP error: one POST, the error raised
C18_Witness ==
    /\ done[1].op = "get_access_token"
    /\ Raised(1)
    /\ done[1].val = "HTTPError"
    /\ Requests(1) = <<"POST">>
    /\ FailedAnswer(1, Len(ev[1]))
    /\ pre[1].access_token # None

----------------------------------------------------------------------------
\* this step stores the access_token of a successful answer to a token POST that was
\* sent with the handler's scope
StoresAnswer ==
    \E t \in Threads :
        /\ At(t, "_fetch_access_token", "await_post")
        /\ Len(ev'[t]) = Len(ev[t]) + 1
        /\ ev[t][Len(ev[t])].e = "POST"
        /\ ev[t][Len(ev[t])].s = scope
        /\ ev'[t][Len(ev'[t])].e = "POST_RESPONSE"
        /\ ev'[t][Len(ev'[t])].b = "ok"
        /\ ev'[t][Len(ev'[t])].a = access_token'

\* this step starts the constructor of a new handler
StartsConstruction ==
    \E t \in Threads :
        /\ ~At(t, "__init__", "start")
        /\ ~Idle(t)'
        /\ Top(t)'.fn = "__init__"
        /\ Top(t)'.pc = "start"

\* C19: with one caller, the stored access token only ever changes by a step that
\* stores the access_token of a successful answer to a token POST sent with the
\* handler's credentials (or by a constructor starting with no token), so what is
\* stored is the token of the latest such answer; and once the constructor has set the
\* credentials no step changes them.
C19_TokenFromEndpoint ==
    [][/\ access_token' # access_token
           => \/ StoresAnswer
              \/ StartsConstruction /\ access_token' = None
       /\ (LastStored(1) # 0)' => (access_token = ev[1][LastStored(1)].a)'
       /\ ~StartsConstruction => UNCHANGED creds]_vars

\* a refresh on a handler built with a custom scope replaced the stored token by the
\* one its POST was answered with
C19_Witness ==
    /\ done[1].op = "get_access_token"
    /\ Returned(1)
    /\ scope = CustomScope
    /\ pre[1].access_token = "T1"
    /\ Requests(1) = <<"POST">>
    /\ ev[1][2].s = CustomScope
    /\ ev[1][3].a = "T2"
    /\ access_token = "T2"

----------------------------------------------------------------------------
\* C20: a get_headers call that refreshed the access token also fetched the CSRF token
\* again: the get_csrf_token call that follows the refresh sent a CSRF GET and did not
\* hand back the token cached before it.
C20_CsrfRefetchedAfterRefresh ==
    (/\ done[1].op = "get_headers"
     /\ Returned(1)
     /\ LastStored(1) # 0
     /\ pre[1].csrf_token # None)
        => Gets(1) = 1

----------------------------------------------------------------------------
\* C24: when get_headers returns, the access token in its Authorization value is the
\* access token the handler holds at that moment, whatever state the call started in.
C24_HeaderCarriesStoredToken ==
    (done[1].op = "get_headers" /\ Returned(1)) => done[1].authz = access_token

----------------------------------------------------------------------------
\* C25: an auth() call that returns has sent one CSRF GET and one or two token POSTs;
\* it sent the second POST exactly when, at the check that follows the first fetch, no
\* expiry was recorded or the recorded expiry was 5 minutes or less away; and the GET
\* carried the token of the last POST's answer.
C25_AuthRequests ==
    (done[1].op = "auth" /\ Returned(1))
        => /\ Len(ev[1]) >= 5
           /\ ev[1][3].e = "CHECK"
           /\ LET second == \/ ev[1][3].x = NoExpiry
                            \/ ev[1][3].x - ev[1][3].n <= 5
              IN  Requests(1) = IF second THEN <<"POST", "POST", "GET">>
                                ELSE <<"POST", "GET">>
           /\ ev[1][LastOf(1, "GET")].a = ev[1][LastOf(1, "POST_RESPONSE")].a

\* a re-authentication whose first token was stale at once: the GET carried the second
C25_Witness ==
    /\ done[1].op = "auth"
    /\ Returned(1)
    /\ pre[1].access_token # None
    /\ Requests(1) = <<"POST", "POST", "GET">>
    /\ ev[1][2].a = "T1"
    /\ ev[1][LastOf(1, "POST_RESPONSE")].a = "T2"
    /\ ev[1][LastOf(1, "GET")].a = "T2"

----------------------------------------------------------------------------
\* C26: with two callers fetching a token on one handler, once every fetch has written
\* what its answer carried, the stored access token and the recorded expiry come from
\* one and the same answer (the answers here all carry an expires_in).
C26_TokenAndExpiryFromOneAnswer ==
    (/\ Stored # {}
     /\ \A o \in Stored : ev[o[1]][o[2]].x # NoExpiresIn
     /\ \A t \in Threads : ~At(t, "_fetch_access_token", "expires"))
        => \E w \in Stored :
               /\ access_token = ev[w[1]][w[2]].a
               /\ token_expires - ev[w[1]][w[2]].x \in 0 .. now

----------------------------------------------------------------------------
\* C27: an auth() call on a handler that already held a token, whose token POST was
\* answered with a token and whose CSRF GET failed, raises the GET's error and rolls
\* nothing back: the handler holds the token of the last answer, the expiry that answer
\* gave (where it carried an expires_in) and the CSRF token it held before the call.
C27_NoRollback ==
    (/\ done[1].op = "auth"
     /\ pre[1].access_token # None
     /\ Idle(1)
     /\ ev[1] # <<>>
     /\ ev[1][Len(ev[1])].e = "GET_RESPONSE"
     /\ ev[1][Len(ev[1])].b = "http_error")
        => /\ Raised(1)
           /\ done[1].val = "HTTPError"
           /\ LastStored(1) # 0
           /\ access_token = ev[1][LastStored(1)].a
           /\ ev[1][LastStored(1)].x # NoExpiresIn
                  => token_expires - ev[1][LastStored(1)].x \in 0 .. now
           /\ csrf_token = pre[1].csrf_token

\* the token and the expiry changed, the CSRF token is the one from before
C27_Witness ==
    /\ done[1].op = "auth"
    /\ Raised(1)
    /\ pre[1].access_token = "T1"
    /\ pre[1].csrf_token = "X1"
    /\ ev[1][Len(ev[1])].e = "GET_RESPONSE"
    /\ ev[1][Len(ev[1])].b = "http_error"
    /\ access_token = "T2"
    /\ token_expires # pre[1].token_expires
    /\ csrf_token = "X1"

----------------------------------------------------------------------------
\* C28: a get_headers call sends at most two token POSTs and at most one CSRF GET,
\* checks the token at most twice and never nests deeper than get_headers,
\* get_csrf_token, _fetch_csrf_token, get_access_token, _fetch_access_token; and every
\* get_headers call that has started ends, returning or raising.
C28_HeadersTerminates ==
    /\ [](done[1].op = "get_headers"
             => /\ Posts(1) <= 2
                /\ Gets(1) <= 1
                /\ Cardinality(Indices(1, "CHECK")) <= 2
                /\ Len(stack[1]) <= 5)
    /\ (done[1].op = "get_headers" /\ ~Idle(1)) ~> Ended(1)

\* a call that used all of it: two POSTs and a GET, and it returned
C28_Witness ==
    /\ done[1].op = "get_headers"
    /\ Returned(1)
    /\ Requests(1) = <<"POST", "POST", "GET">>

----------------------------------------------------------------------------
(* Claims about sup sync run *)

\* the positions of effects, those of the pull and those of the push
EffectIndices == DOMAIN effects
TargetSet == {Targets[i] : i \in DOMAIN Targets}
PullEffects ==
    {i \in EffectIndices : effects[i].ws = Source /\ effects[i].kind # "PROMPT"}
PushEffects == {i \in EffectIndices : effects[i].ws \in TargetSet}

\* a run with neither --pull-only nor --push-only
FullRun == sync.pc # "none" /\ ~args.pull_only /\ ~args.push_only

\* the pull ended with an exception: an export failed, or no client for the source
PullFailed ==
    \/ \E i \in PullEffects : effects[i].kind = "EXPORT" /\ ~effects[i].ok
    \/ /\ \E i \in PullEffects : effects[i].kind = "LIST_WORKSPACES"
       /\ \A i \in PullEffects : effects[i].kind # "CLIENT"

\* the pull ran to its end: the client, the folder and every export, all successful
PullCompleted ==
    /\ \E i \in PullEffects : effects[i].kind = "CLIENT"
    /\ \E i \in PullEffects : effects[i].kind = "MKDIR"
    /\ Cardinality({i \in PullEffects : effects[i].kind = "EXPORT" /\ effects[i].ok})
           = args.asset_types
    /\ ~PullFailed

\* C21: in a run with neither --pull-only nor --push-only everything the pull does comes
\* before anything the push does, the push starts only after the pull has completed, and
\* when the pull fails nothing is pushed and the run ends with exit code 1.
C21_PullBeforePush ==
    FullRun =>
        /\ \A i \in PullEffects : \A j \in PushEffects : i < j
        /\ (PushEffects # {} \/ sync.pc \in {"push", "import"}) =>
               (args.dry_run \/ PullCompleted)
        /\ PullFailed =>
               /\ PushEffects = {}
               /\ sync.pc = "exited"
               /\ sync.exit = 1

\* a full run whose pull exported something and whose push then imported into a target
C21_Witness ==
    /\ FullRun
    /\ \E i \in PullEffects : effects[i].kind = "EXPORT" /\ effects[i].ok
    /\ \E j \in PushEffects : effects[j].kind = "IMPORT"

\* a full run whose pull failed
C21_WitnessFailed == FullRun /\ PullFailed /\ sync.exit = 1

\* the place of target workspace w among the selected targets
Position(w) == CHOOSE k \in DOMAIN sync.selected : sync.selected[k] = w

\* the place of target workspace w in the configuration
ConfigPosition(w) == CHOOSE k \in DOMAIN Targets : Targets[k] = w

\* C22: the push works through the selected targets one at a time in configuration
\* order and stops at the first target that fails: a failed import is the last thing the
\* run does, nothing is done for a later target, the imports into earlier targets
\* stand, and the run ends with exit code 1.
C22_PushStopsAtFirstFailure ==
    /\ \A i \in PushEffects :
           /\ \E k \in DOMAIN sync.selected : sync.selected[k] = effects[i].ws
           /\ Position(effects[i].ws) <= sync.next
    /\ \A i, j \in PushEffects :
           i < j => Position(effects[i].ws) <= Position(effects[j].ws)
    /\ \A k \in 1 .. Len(sync.selected) - 1 :
           ConfigPosition(sync.selected[k]) < ConfigPosition(sync.selected[k + 1])
    /\ \A i \in PushEffects :
           (effects[i].kind = "IMPORT" /\ ~effects[i].ok) =>
               /\ i = Len(effects)
               /\ Position(effects[i].ws) = sync.next
               /\ sync.pc = "exited"
               /\ sync.exit = 1
               /\ \A j \in PushEffects :
                      (j < i /\ effects[j].kind = "IMPORT") =>
                          effects[j].ok /\ effects[j].ws # effects[i].ws

\* the first target was pushed, the second failed, and there is a third selected or not
C22_Witness ==
    /\ Len(sync.selected) >= 2
    /\ sync.exit = 1
    /\ \E i, j \in PushEffects :
           /\ effects[i].kind = "IMPORT" /\ effects[i].ok
           /\ effects[i].ws = sync.selected[1]
           /\ effects[j].kind = "IMPORT" /\ ~effects[j].ok
           /\ effects[j].ws = sync.selected[2]

\* C23: with --dry-run a sync run does nothing, whatever the other flags are: no
\* client, no export, no import, no folder or file written, for the pull and for every
\* push target, and no confirmation asked.
C23_DryRunDoesNothing == (sync.pc # "none" /\ args.dry_run) => effects = <<>>

\* a dry run of pull and push over every configured target that ran to its end
C23_Witness ==
    /\ args.dry_run
    /\ FullRun
    /\ ~args.force
    /\ sync.pc = "exited"
    /\ sync.exit = 0
    /\ sync.next = MaxTargets + 1

\* C29: a sync run that is not a dry run pulls or pushes only with --force or after the
\* user has answered the prompt with yes, in every output mode, --porcelain included;
\* after the answer no it does nothing and ends with exit code 0.
C29_ConfirmedOrForced ==
    (sync.pc # "none" /\ ~args.dry_run) =>
        /\ (\E i \in EffectIndices : effects[i].kind # "PROMPT") =>
               (args.force \/ effects[1].kind = "PROMPT")
        /\ sync.pc \in {"pull", "export", "push", "import"} =>
               (args.force \/ (effects # <<>> /\ effects[1].kind = "PROMPT"))

\* the half of C29 that holds: a prompt is only asked first and once, and a run that
\* ends right after it ends with exit code 0
C29_DecliningExitsZero ==
    /\ \A i \in EffectIndices : effects[i].kind = "PROMPT" => i = 1
    /\ (sync.pc = "exited" /\ Len(effects) = 1 /\ effects[1].kind = "PROMPT")
           => sync.exit = 0

\* the hostname of the client each effect used is the hostname of its workspace
RightWorkspace(i) ==
    effects[i].kind \in {"CLIENT", "EXPORT", "IMPORT"} => effects[i].host = Host(effects[i].ws)

\* C30: the client from_context builds for workspace W has the hostname of W, also when
\* the context has the hostname of another, current workspace cached; so the pull and
\* every push target of a sync run are contacted at their own workspace.
C30_ClientOfRequestedWorkspace == \A i \in EffectIndices : RightWorkspace(i)

\* the half of C30 that holds: with no hostname cached the client is that of W
C30_WithoutCachedHostname ==
    \A i \in EffectIndices :
        (/\ effects[i].kind = "CLIENT"
         /\ i > 1
         /\ effects[i - 1].kind = "LIST_WORKSPACES"
         /\ effects[i - 1].ws = effects[i].ws) => RightWorkspace(i)

====
